---- MODULE Spec2Model ----
(***************************************************************************)
(* Model of data_processing_EHR_FM.ipynb: the MACE labeler, the vocabulary *)
(* builder, the sequence tokenizer, process_patient_data (with its five    *)
(* persistence steps) and the mortality alignment cell.                    *)
(*                                                                         *)
(* Tables are sequences of row records (row order and duplicate person ids *)
(* are kept).  Dates are day numbers.  Python indices are 0-based in the   *)
(* id mapping, arrays are 1-based sequences here: array[idx] of the code   *)
(* is array[idx + 1] of the model.                                         *)
(***************************************************************************)
EXTENDS Integers, Sequences, FiniteSets, TLC

\* ---------------------------------------------------------------- bounds
MaxPerson == 2      \* person ids are 1..MaxPerson
MaxDate == 2        \* event dates are 1..MaxDate
MaxEvents == 3      \* rows of the event table
MaxStarts == 2      \* rows of the index-date table
MaxMace == 2        \* rows of the outcome table
MaxDeaths == 2      \* rows of the death table
MaxRuns == 2        \* invocations of process_patient_data on one suffix

\* MAX_SEQ_LENGTH is 1024 in the notebook; the model runs the same code with
\* a row width that three events can overflow.
MAX_SEQ_LENGTH == 6

\* Missing values: pd.to_datetime of an absent date, the label a left merge
\* fabricates for an unmatched row, and a slot of np.empty(dtype=object).
NaT == -1
NaN == -1
None == 0

Persons == 1..MaxPerson
LabelPersons == {1, 2}     \* person ids of the index-date and outcome tables
Codes == {9, 10}
Dates == 1..MaxDate
StartDates == {0, 1}
MaceDates == {NaT, 7, 366}
ExposureDates == {1}
DeathDates == {NaT, 0, 1, 366, 367}

\* ---------------------------------------------------------------- helpers
Range(s) == {s[k] : k \in DOMAIN s}

SeqsUpTo(S, n) == UNION {[1..k -> S] : k \in 0..n}

Min(a, b) == IF a <= b THEN a ELSE b

Max(a, b) == IF a >= b THEN a ELSE b

RemoveAt(s, k) == SubSeq(s, 1, k - 1) \o SubSeq(s, k + 1, Len(s))

RECURSIVE Concat(_)
Concat(ss) == IF ss = <<>> THEN <<>> ELSE Head(ss) \o Concat(Tail(ss))

Count(s, x) == Cardinality({k \in DOMAIN s : s[k] = x})

\* np.unique / the key order of groupby: the distinct values, ascending.
RECURSIVE SortedSeq(_)
SortedSeq(S) ==
    IF S = {} THEN <<>>
    ELSE LET m == CHOOSE x \in S : \A y \in S : x <= y
         IN <<m>> \o SortedSeq(S \ {m})

\* ------------------------------------------------------- input tables
EventRows == [person_id : Persons, concept_id : Codes, event_date : Dates]
StartRows == [person_id : LabelPersons, index_date : StartDates]
MaceRows == [person_id : LabelPersons, first_mace_date : MaceDates]
DeathRows == [person_id : Persons, first_exposure_date : ExposureDates,
              death_date : DeathDates]

\* ------------------------------------------------ calculate_mace_outcomes
\* pd.merge(left, right, on='person_id', how='left'): left order is kept, a
\* left row appears once per matching right row (right order), and once
\* with a missing value when nothing matches.
OutcomesMerge(starts, mace) ==
    Concat([k \in DOMAIN starts |->
        LET hits == SelectSeq(mace, LAMBDA m : m.person_id = starts[k].person_id)
        IN IF hits = <<>>
           THEN <<[person_id |-> starts[k].person_id,
                   index_date |-> starts[k].index_date,
                   first_mace_date |-> NaT]>>
           ELSE [j \in DOMAIN hits |->
                   [person_id |-> starts[k].person_id,
                    index_date |-> starts[k].index_date,
                    first_mace_date |-> hits[j].first_mace_date]]])

\* days_to_mace: zero unless the outcome date is present, then the day
\* difference (zero again when the difference itself is missing).
DaysToMace(row) ==
    IF row.first_mace_date = NaT THEN 0
    ELSE IF row.index_date = NaT THEN 0
    ELSE row.first_mace_date - row.index_date

\* A window that leaves out its lower bound.
Mace12mExclusive(d) == IF d > 7 /\ d <= 365 THEN 1 ELSE 0

Mace12m(d) == IF d >= 7 /\ d <= 365 THEN 1 ELSE 0

calculate_mace_outcomes(starts, mace) ==
    LET outcomes == OutcomesMerge(starts, mace)
    IN [k \in DOMAIN outcomes |->
          [person_id |-> outcomes[k].person_id,
           mace_12m |-> Mace12m(DaysToMace(outcomes[k]))]]

\* ------------------------------------------------------ create_vocabulary
Reserved == [t \in {"[PAD]", "[CLS]", "[SEP]", "[DAY]"} |->
               CASE t = "[PAD]" -> 0
                 [] t = "[CLS]" -> 1
                 [] t = "[SEP]" -> 2
                 [] t = "[DAY]" -> 3]

\* {**a, **b}: the entries of b override those of a.
DictMerge(a, b) ==
    [k \in (DOMAIN a) \cup (DOMAIN b) |-> IF k \in DOMAIN b THEN b[k] ELSE a[k]]

\* The distinct values of a sequence in order of first appearance (the key
\* order of a dict filled from it).
RECURSIVE FirstSeen(_)
FirstSeen(s) ==
    IF s = <<>> THEN <<>>
    ELSE LET r == FirstSeen(SubSeq(s, 1, Len(s) - 1))
         IN IF s[Len(s)] \in Range(r) THEN r ELSE Append(r, s[Len(s)])

\* A mis-ordered builder: codes in order of first appearance in the table.
UniqueCodesFirstSeen(df) == FirstSeen([k \in DOMAIN df |-> df[k].concept_id])

UniqueCodes(df) == SortedSeq({df[k].concept_id : k \in DOMAIN df})

create_vocabulary(df) ==
    LET unique_codes == UniqueCodes(df)
        codes == [s \in {ToString(unique_codes[k]) : k \in DOMAIN unique_codes} |->
                    (CHOOSE k \in DOMAIN unique_codes : ToString(unique_codes[k]) = s)
                    - 1 + 4]
    IN DictMerge(codes, Reserved)

\* -------------------------------------------------- tokenize_patient_data
\* The loop over zip(dates_array, events_array); current_date is <<>> for
\* Python's None and <<d>> once a date has been seen.
RECURSIVE TokenizeLoop(_, _, _, _, _)
TokenizeLoop(events, dates, k, tokens, current_date) ==
    IF k > Min(Len(events), Len(dates)) THEN tokens
    ELSE LET newday == current_date # <<dates[k]>>
             t1 == IF newday /\ current_date # <<>>
                   THEN Append(tokens, "[SEP]") ELSE tokens
             t2 == IF newday THEN Append(t1, "[DAY]") ELSE t1
         IN TokenizeLoop(events, dates, k + 1, Append(t2, ToString(events[k])),
                         IF newday THEN <<dates[k]>> ELSE current_date)

\* A tokenizer that forgets the closing separator.
TokensNoTrailingSep(events, dates) ==
    TokenizeLoop(events, dates, 1, <<"[CLS]">>, <<>>)

Tokens(events, dates) ==
    Append(TokenizeLoop(events, dates, 1, <<"[CLS]">>, <<>>), "[SEP]")

\* vocab.get(token, vocab['[PAD]'])
VocabGet(vocab, token) ==
    IF token \in DOMAIN vocab THEN vocab[token] ELSE vocab["[PAD]"]

\* The untruncated id sequence (the list comprehension before the slice).
TokenIds(events, dates, vocab) ==
    LET tokens == Tokens(events, dates)
    IN [k \in DOMAIN tokens |-> VocabGet(vocab, tokens[k])]

\* s[:n], the slice from the wrong end.
FirstN(s, n) == IF Len(s) <= n THEN s ELSE SubSeq(s, 1, n)

\* s[-n:] for n > 0
LastN(s, n) == IF Len(s) <= n THEN s ELSE SubSeq(s, Len(s) - n + 1, Len(s))

tokenize_patient_data(events, dates, vocab) ==
    LastN(TokenIds(events, dates, vocab), MAX_SEQ_LENGTH)

\* --------------------------------------- process_patient_data, pure parts
KeyLess(a, b) ==
    \/ a.person_id < b.person_id
    \/ a.person_id = b.person_id /\ a.event_date < b.event_date

\* data.sort_values(['person_id', 'event_date']): a multi-key sort, stable,
\* so rows with equal keys keep their input order.
RECURSIVE SortValues(_)
SortValues(df) ==
    IF df = <<>> THEN <<>>
    ELSE LET m == CHOOSE k \in DOMAIN df :
                     /\ \A j \in DOMAIN df : ~KeyLess(df[j], df[k])
                     /\ \A j \in 1..(k - 1) : KeyLess(df[k], df[j])
         IN <<df[m]>> \o SortValues(RemoveAt(df, m))

\* data.merge(mace_outcomes_df, on='person_id', how='left')
DataMerge(df, labels) ==
    Concat([k \in DOMAIN df |->
        LET hits == SelectSeq(labels, LAMBDA m : m.person_id = df[k].person_id)
        IN IF hits = <<>>
           THEN <<[person_id |-> df[k].person_id, concept_id |-> df[k].concept_id,
                   event_date |-> df[k].event_date, mace_12m |-> NaN]>>
           ELSE [j \in DOMAIN hits |->
                   [person_id |-> df[k].person_id, concept_id |-> df[k].concept_id,
                    event_date |-> df[k].event_date,
                    mace_12m |-> hits[j].mace_12m]]])

\* The dict comprehension over data.groupby('person_id'): keys ascending,
\* rows of a group in table order, the label of the group's first row.
GroupBy(df) ==
    LET names == SortedSeq({df[k].person_id : k \in DOMAIN df})
    IN [g \in DOMAIN names |->
          LET group == SelectSeq(df, LAMBDA r : r.person_id = names[g])
          IN [name |-> names[g],
              events |-> [k \in DOMAIN group |-> group[k].concept_id],
              dates |-> [k \in DOMAIN group |-> group[k].event_date],
              mace |-> group[1].mace_12m]]

\* padded_sequences[i, :seq_len] = tokens[:seq_len] on a row of zeros
PadRow(row, tokens) ==
    LET seq_len == Min(Len(tokens), MAX_SEQ_LENGTH)
    IN [k \in 1..MAX_SEQ_LENGTH |-> IF k <= seq_len THEN tokens[k] ELSE row[k]]

\* A second pass that walks the grouping backwards.
LengthsPassReversed(grouped, vocab) ==
    [g \in DOMAIN grouped |->
        Min(Len(tokenize_patient_data(grouped[Len(grouped) + 1 - g].events,
                                      grouped[Len(grouped) + 1 - g].dates, vocab)),
            MAX_SEQ_LENGTH)]

\* The valid-length array, recomputed over grouped_data.values() at save time.
LengthsPass(grouped, vocab) ==
    [g \in DOMAIN grouped |->
        Min(Len(tokenize_patient_data(grouped[g].events, grouped[g].dates, vocab)),
            MAX_SEQ_LENGTH)]

\* dict(zip(sample_ids, range(len(sample_ids)))): a later slot overrides.
ZipToIndex(ids) ==
    [p \in Range(ids) |->
        (CHOOSE k \in DOMAIN ids : ids[k] = p /\ \A j \in DOMAIN ids : ids[j] = p => j <= k)
        - 1]

\* list(sample_id_to_index.items()): the pairs in insertion order.
DictItems(ids, m) ==
    LET keys == FirstSeen(ids)
    IN [k \in DOMAIN keys |-> <<keys[k], m[keys[k]]>>]

\* ------------------------------------------------- mortality outcome cell
\* days_to_death and the comparison; a missing date makes both comparisons
\* false, which fillna(0).astype(int8) leaves at 0.
Death12m(row) ==
    IF row.death_date = NaT \/ row.first_exposure_date = NaT THEN 0
    ELSE IF row.death_date - row.first_exposure_date >= 0
            /\ row.death_date - row.first_exposure_date <= 365
         THEN 1 ELSE 0

\* A dict that keeps the first row of a person instead of the last.
DeathDictFirst(dt) ==
    [p \in {dt[k].person_id : k \in DOMAIN dt} |->
        Death12m(dt[CHOOSE k \in DOMAIN dt :
                     /\ dt[k].person_id = p
                     /\ \A j \in DOMAIN dt : dt[j].person_id = p => k <= j])]

\* dict(zip(deaths['person_id'], deaths['death_12m'])): the last row of a
\* person id overrides the earlier ones.
DeathDict(dt) ==
    [p \in {dt[k].person_id : k \in DOMAIN dt} |->
        Death12m(dt[CHOOSE k \in DOMAIN dt :
                     /\ dt[k].person_id = p
                     /\ \A j \in DOMAIN dt : dt[j].person_id = p => j <= k])]

\* for person_id, idx in id_mapping.items(): death_outcomes[idx] = ...
RECURSIVE AlignLoop(_, _, _)
AlignLoop(items, arr, death_dict) ==
    IF items = <<>> THEN arr
    ELSE LET person_id == Head(items)[1]
             idx == Head(items)[2]
             v == IF person_id \in DOMAIN death_dict THEN death_dict[person_id] ELSE 0
         IN AlignLoop(Tail(items), [arr EXCEPT ![idx + 1] = v], death_dict)

\* ---------------------------------------------------------------- state
VARIABLES
    data,                     \* the event table handed to process_patient_data
    antihypertensive_starts,  \* the index-date table
    mace_data,                \* the outcome table
    deaths,                   \* the death table
    pc,                       \* the next step of the notebook
    run,                      \* number of the current invocation
    mace_outcomes_df,
    vocab,
    merged,                   \* the local `data` after the left merge
    grouped_data,
    i,
    padded_sequences,
    mace_outcomes,
    sample_ids,
    max_seq_length,
    sample_id_to_index,
    files,                    \* ./processed_data: artifact -> [run, val]
    id_mapping,               \* the mapping returned to the notebook
    death_outcomes

vars == <<data, antihypertensive_starts, mace_data, deaths, pc, run,
          mace_outcomes_df, vocab, merged, grouped_data, i, padded_sequences,
          mace_outcomes, sample_ids, max_seq_length, sample_id_to_index, files,
          id_mapping, death_outcomes>>

inputs == <<data, antihypertensive_starts, mace_data, deaths>>

locals == <<mace_outcomes_df, vocab, merged, grouped_data, i, padded_sequences,
            mace_outcomes, sample_ids, max_seq_length, sample_id_to_index>>

Artifacts == {"sequences", "lengths", "outcomes", "vocab", "id_to_index"}

Absent == [run |-> 0, val |-> <<>>]

LocalsUnset ==
    /\ mace_outcomes_df = <<>>
    /\ vocab = <<>>
    /\ merged = <<>>
    /\ grouped_data = <<>>
    /\ i = 0
    /\ padded_sequences = <<>>
    /\ mace_outcomes = <<>>
    /\ sample_ids = <<>>
    /\ max_seq_length = 0
    /\ sample_id_to_index = <<>>

InitWith(D, S, M, Dt) ==
    /\ data \in D
    /\ antihypertensive_starts \in S
    /\ mace_data \in M
    /\ deaths \in Dt
    /\ pc = "calculate_mace_outcomes"
    /\ run = 1
    /\ LocalsUnset
    /\ files = [a \in Artifacts \cup {"death_outcomes"} |-> Absent]
    /\ id_mapping = <<>>
    /\ death_outcomes = <<>>

\* --------------------------------------------------- process_patient_data
CalculateMaceOutcomes ==
    /\ pc = "calculate_mace_outcomes"
    /\ mace_outcomes_df' = calculate_mace_outcomes(antihypertensive_starts, mace_data)
    /\ pc' = "sort_values"
    /\ UNCHANGED <<inputs, run, vocab, merged, grouped_data, i, padded_sequences,
                   mace_outcomes, sample_ids, max_seq_length, sample_id_to_index,
                   files, id_mapping, death_outcomes>>

SortData ==
    /\ pc = "sort_values"
    /\ data' = SortValues(data)
    /\ pc' = "create_vocabulary"
    /\ UNCHANGED <<antihypertensive_starts, mace_data, deaths, run, locals, files,
                   id_mapping, death_outcomes>>

CreateVocabulary ==
    /\ pc = "create_vocabulary"
    /\ vocab' = create_vocabulary(data)
    /\ pc' = "merge"
    /\ UNCHANGED <<inputs, run, mace_outcomes_df, merged, grouped_data, i,
                   padded_sequences, mace_outcomes, sample_ids, max_seq_length,
                   sample_id_to_index, files, id_mapping, death_outcomes>>

MergeOutcomes ==
    /\ pc = "merge"
    /\ merged' = DataMerge(data, mace_outcomes_df)
    /\ pc' = "group"
    /\ UNCHANGED <<inputs, run, mace_outcomes_df, vocab, grouped_data, i,
                   padded_sequences, mace_outcomes, sample_ids, max_seq_length,
                   sample_id_to_index, files, id_mapping, death_outcomes>>

\* Grouping and the initialisation of the arrays (n_patients rows).
GroupData ==
    /\ pc = "group"
    /\ grouped_data' = GroupBy(merged)
    /\ padded_sequences' = [g \in 1..Len(GroupBy(merged)) |->
                               [k \in 1..MAX_SEQ_LENGTH |-> 0]]
    /\ mace_outcomes' = [g \in 1..Len(GroupBy(merged)) |-> 0]
    /\ sample_ids' = [g \in 1..Len(GroupBy(merged)) |-> None]
    /\ max_seq_length' = 0
    /\ i' = 0
    /\ pc' = "process_sequences"
    /\ UNCHANGED <<inputs, run, mace_outcomes_df, vocab, merged,
                   sample_id_to_index, files, id_mapping, death_outcomes>>

\* One iteration of the loop over grouped_data.items().
ProcessPatient ==
    /\ pc = "process_sequences"
    /\ i < Len(grouped_data)
    /\ LET g == grouped_data[i + 1]
           tokens == tokenize_patient_data(g.events, g.dates, vocab)
       IN /\ padded_sequences' =
                [padded_sequences EXCEPT ![i + 1] = PadRow(@, tokens)]
          /\ max_seq_length' = Max(max_seq_length, Len(tokens))
          /\ mace_outcomes' = [mace_outcomes EXCEPT ![i + 1] = g.mace]
          /\ sample_ids' = [sample_ids EXCEPT ![i + 1] = g.name]
    /\ i' = i + 1
    /\ UNCHANGED <<inputs, pc, run, mace_outcomes_df, vocab, merged, grouped_data,
                   sample_id_to_index, files, id_mapping, death_outcomes>>

CreateMapping ==
    /\ pc = "process_sequences"
    /\ i = Len(grouped_data)
    /\ sample_id_to_index' = ZipToIndex(sample_ids)
    /\ pc' = "save_sequences"
    /\ UNCHANGED <<inputs, run, mace_outcomes_df, vocab, merged, grouped_data, i,
                   padded_sequences, mace_outcomes, sample_ids, max_seq_length,
                   files, id_mapping, death_outcomes>>

Save(step, artifact, val, next) ==
    /\ pc = step
    /\ files' = [files EXCEPT ![artifact] = [run |-> run, val |-> val]]
    /\ pc' = next
    /\ UNCHANGED <<inputs, run, locals, id_mapping, death_outcomes>>

SaveSequences == Save("save_sequences", "sequences", padded_sequences, "save_lengths")

SaveLengths ==
    Save("save_lengths", "lengths", LengthsPass(grouped_data, vocab), "save_outcomes")

SaveOutcomes == Save("save_outcomes", "outcomes", mace_outcomes, "save_vocab")

SaveVocab == Save("save_vocab", "vocab", vocab, "save_mapping")

SaveMapping ==
    Save("save_mapping", "id_to_index", DictItems(sample_ids, sample_id_to_index),
         "summary")

\* The summary prints max_seq_length as it stands; the function returns.
Return ==
    /\ pc = "summary"
    /\ id_mapping' = sample_id_to_index
    /\ pc' = "mortality"
    /\ UNCHANGED <<inputs, run, locals, files, death_outcomes>>

\* ------------------------------------------------- mortality outcome cell
MortalityCell ==
    /\ pc = "mortality"
    /\ LET n == Cardinality(DOMAIN id_mapping)
           aligned == AlignLoop(DictItems(sample_ids, id_mapping),
                                [k \in 1..n |-> 0], DeathDict(deaths))
       IN /\ death_outcomes' = aligned
          /\ files' = [files EXCEPT !["death_outcomes"] =
                          [run |-> run, val |-> aligned]]
    /\ pc' = "done"
    /\ UNCHANGED <<inputs, run, locals, id_mapping>>

\* ------------------------------------------- failures and re-invocations
SaveSteps == {"save_sequences", "save_lengths", "save_outcomes", "save_vocab",
              "save_mapping"}

\* A write raises (the directory is missing, the disk is full): the run
\* ends where it stands, nothing is rolled back.
Abort ==
    /\ pc \in SaveSteps
    /\ pc' = "aborted"
    /\ UNCHANGED <<inputs, run, locals, files, id_mapping, death_outcomes>>

RerunTables == SeqsUpTo([person_id : Persons, concept_id : {9}, event_date : {1}], 1)

\* The cell is run again on the same suffix, with whatever tables are loaded.
Rerun ==
    /\ pc \in {"done", "aborted"}
    /\ run < MaxRuns
    /\ run' = run + 1
    /\ data' \in RerunTables
    /\ pc' = "calculate_mace_outcomes"
    /\ mace_outcomes_df' = <<>>
    /\ vocab' = <<>>
    /\ merged' = <<>>
    /\ grouped_data' = <<>>
    /\ i' = 0
    /\ padded_sequences' = <<>>
    /\ mace_outcomes' = <<>>
    /\ sample_ids' = <<>>
    /\ max_seq_length' = 0
    /\ sample_id_to_index' = <<>>
    /\ UNCHANGED <<antihypertensive_starts, mace_data, deaths, files, id_mapping,
                   death_outcomes>>

\* ------------------------------------------------------- specifications
Next ==
    \/ CalculateMaceOutcomes
    \/ SortData
    \/ CreateVocabulary
    \/ MergeOutcomes
    \/ GroupData
    \/ ProcessPatient
    \/ CreateMapping
    \/ SaveSequences
    \/ SaveLengths
    \/ SaveOutcomes
    \/ SaveVocab
    \/ SaveMapping
    \/ Return
    \/ MortalityCell

NextRerun ==
    \/ Next
    \/ Abort
    \/ Rerun

OneStart == {<<[person_id |-> 1, index_date |-> 0]>>}
OneMace == {<<[person_id |-> 1, first_mace_date |-> 7]>>}
FewEvents == SeqsUpTo([person_id : Persons, concept_id : {9}, event_date : {1}], 1)

\* Every event table, one fixed label source: tokenizer, vocabulary, rows.
Init ==
    InitWith(SeqsUpTo(EventRows, MaxEvents), OneStart, OneMace, {<<>>})

Spec == Init /\ [][Next]_vars

\* Every index-date and outcome table over a few events: the labels.
InitLabel ==
    InitWith(FewEvents, SeqsUpTo(StartRows, MaxStarts), SeqsUpTo(MaceRows, MaxMace),
             {<<>>})

SpecLabel == InitLabel /\ [][Next]_vars

\* Every death table over a few events: the mortality alignment.
InitDeath ==
    InitWith(FewEvents, OneStart, OneMace, SeqsUpTo(DeathRows, MaxDeaths))

SpecDeath == InitDeath /\ [][Next]_vars

\* Repeated invocations on one suffix, any write of which may fail.
InitPersist == InitWith(RerunTables, OneStart, OneMace, {<<>>})

SpecPersist == InitPersist /\ [][NextRerun]_vars

\* ------------------------------------------------------------ properties
Returned == pc \in {"mortality", "done"}

Persisted == pc \in {"summary", "mortality", "done"}

PersonsOf(df) == {df[k].person_id : k \in DOMAIN df}

RowsOf(df, p) == SelectSeq(df, LAMBDA r : r.person_id = p)

\* C1: after process_patient_data every entry of the outcome array is
\* exactly 0 or 1, also for a patient with events but no index-date row.
C1_OutcomesBinary ==
    Returned => \A k \in DOMAIN mace_outcomes : mace_outcomes[k] \in {0, 1}

\* C2: the id-to-index mapping is a bijection between the person ids and
\* 0..N-1, and row idx of the persisted token matrix, outcome array and
\* valid-length array all belong to the person mapped to idx.
C2_RowAlignment ==
    Persisted =>
        LET ids == PersonsOf(data)
            N == Cardinality(ids)
            zeros == [k \in 1..MAX_SEQ_LENGTH |-> 0]
        IN /\ DOMAIN sample_id_to_index = ids
           /\ {sample_id_to_index[p] : p \in ids} = 0..(N - 1)
           /\ \A p, q \in ids :
                 sample_id_to_index[p] = sample_id_to_index[q] => p = q
           /\ Len(files["sequences"].val) = N
           /\ Len(files["outcomes"].val) = N
           /\ Len(files["lengths"].val) = N
           /\ Range(files["id_to_index"].val) =
                 {<<p, sample_id_to_index[p]>> : p \in ids}
           /\ \A p \in ids :
                 LET idx == sample_id_to_index[p]
                     rows == RowsOf(merged, p)
                     tokens == tokenize_patient_data(
                                   [k \in DOMAIN rows |-> rows[k].concept_id],
                                   [k \in DOMAIN rows |-> rows[k].event_date],
                                   files["vocab"].val)
                 IN /\ files["sequences"].val[idx + 1] = PadRow(zeros, tokens)
                    /\ files["outcomes"].val[idx + 1] = rows[1].mace_12m
                    /\ files["lengths"].val[idx + 1] = Len(tokens)

C2_Witness ==
    /\ pc = "done"
    /\ Len(grouped_data) = 2
    /\ files["lengths"].val[1] # files["lengths"].val[2]
    /\ files["sequences"].val[1] # files["sequences"].val[2]
    /\ files["outcomes"].val[1] # files["outcomes"].val[2]

\* The outcome rows joined to index row k, and the rows the join emits for
\* the index rows before k.
Matches(k) == RowsOf(mace_data, antihypertensive_starts[k].person_id)

RECURSIVE JoinedBefore(_)
JoinedBefore(k) ==
    IF k <= 1 THEN 0 ELSE JoinedBefore(k - 1) + Max(1, Len(Matches(k - 1)))

InWindow(index_date, outcome_date) ==
    /\ outcome_date # NaT
    /\ outcome_date - index_date >= 7
    /\ outcome_date - index_date <= 365

Labelled == pc # "calculate_mace_outcomes"

\* C3 as stated: calculate_mace_outcomes returns one label for every row of
\* the index-date table, 1 exactly when the joined outcome date is present
\* and 7 <= days <= 365.
C3_OneLabelPerIndexRow ==
    Labelled =>
        /\ Len(mace_outcomes_df) = Len(antihypertensive_starts)
        /\ \A k \in DOMAIN antihypertensive_starts :
              /\ mace_outcomes_df[k].person_id = antihypertensive_starts[k].person_id
              /\ mace_outcomes_df[k].mace_12m = 1 <=>
                    \E j \in DOMAIN Matches(k) :
                        InWindow(antihypertensive_starts[k].index_date,
                                 Matches(k)[j].first_mace_date)

\* C3 amended: calculate_mace_outcomes returns one label for every row of
\* the left join (an index-date row once per outcome row of its person, once
\* when it has none), in join order; the label is 1 exactly when that row's
\* outcome date is present and 7 <= days <= 365.
C3_OneLabelPerJoinedRow ==
    Labelled =>
        LET n == Len(antihypertensive_starts)
        IN /\ Len(mace_outcomes_df) = JoinedBefore(n + 1)
           /\ \A k \in 1..n :
                 /\ Len(Matches(k)) = 0 =>
                       mace_outcomes_df[JoinedBefore(k) + 1] =
                           [person_id |-> antihypertensive_starts[k].person_id,
                            mace_12m |-> 0]
                 /\ \A j \in DOMAIN Matches(k) :
                       LET lab == mace_outcomes_df[JoinedBefore(k) + j]
                       IN /\ lab.person_id = antihypertensive_starts[k].person_id
                          /\ lab.mace_12m \in {0, 1}
                          /\ lab.mace_12m = 1 <=>
                                InWindow(antihypertensive_starts[k].index_date,
                                         Matches(k)[j].first_mace_date)

\* Day differences 7, 366, 6, 365 in one join of two index rows.
C3_Witness ==
    /\ pc = "sort_values"
    /\ antihypertensive_starts = <<[person_id |-> 1, index_date |-> 0],
                                   [person_id |-> 1, index_date |-> 1]>>
    /\ mace_data = <<[person_id |-> 1, first_mace_date |-> 7],
                     [person_id |-> 1, first_mace_date |-> 366]>>
    /\ [k \in DOMAIN mace_outcomes_df |-> mace_outcomes_df[k].mace_12m]
          = <<1, 0, 0, 1>>

Ascending(dates) == \A k \in 1..(Len(dates) - 1) : dates[k] <= dates[k + 1]

Grouped == pc \notin {"calculate_mace_outcomes", "sort_values", "create_vocabulary",
                      "merge", "group"}

\* C4: for ascending dates the untruncated sequence is the start token, then
\* per distinct date (ascending) a day token, that date's code tokens in
\* input order and a separator: it starts with the start token, ends with
\* the separator, and has one day token and one separator per distinct date.
C4_TokenStructure ==
    Grouped =>
        \A g \in DOMAIN grouped_data :
            LET events == grouped_data[g].events
                dates == grouped_data[g].dates
                T == TokenIds(events, dates, vocab)
                days == SortedSeq(Range(dates))
                codes(d) == LET at == SelectSeq([k \in DOMAIN events |-> k],
                                                LAMBDA k : dates[k] = d)
                            IN [k \in DOMAIN at |-> vocab[ToString(events[at[k]])]]
            IN Ascending(dates) =>
                  /\ Len(events) >= 1
                  /\ T[1] = vocab["[CLS]"]
                  /\ T[Len(T)] = vocab["[SEP]"]
                  /\ Count(T, vocab["[DAY]"]) = Len(days)
                  /\ Count(T, vocab["[SEP]"]) = Len(days)
                  /\ \A k \in DOMAIN T :
                        T[k] = vocab["[DAY]"] => k = 2 \/ T[k - 1] = vocab["[SEP]"]
                  /\ T = <<vocab["[CLS]"]>> \o
                         Concat([n \in DOMAIN days |->
                                   <<vocab["[DAY]"]>> \o codes(days[n])
                                      \o <<vocab["[SEP]"]>>])

C4_Witness ==
    /\ pc = "done"
    /\ \E g \in DOMAIN grouped_data :
          /\ Len(grouped_data[g].events) = 3
          /\ grouped_data[g].dates = <<1, 1, 2>>
          /\ TokenIds(grouped_data[g].events, grouped_data[g].dates, vocab)
                = <<1, 3, 5, 4, 2, 3, 4, 2>>

\* C5: the stored row is the last min(|T|, M) ids of the untruncated
\* sequence T at indices 0.., padding id 0 after them, and the recorded
\* valid length is min(|T|, M).
C5_SuffixAndPadding ==
    Persisted =>
        \A g \in DOMAIN grouped_data :
            LET T == TokenIds(grouped_data[g].events, grouped_data[g].dates, vocab)
                n == Min(Len(T), MAX_SEQ_LENGTH)
            IN /\ files["sequences"].val[g] =
                     [k \in 1..MAX_SEQ_LENGTH |->
                         IF k <= n THEN T[Len(T) - n + k] ELSE 0]
               /\ files["lengths"].val[g] = n

\* T = [START, DAY, 4, 5, SEP, DAY, 4, SEP] stored as [4, 5, SEP, DAY, 4, SEP].
C5_Witness ==
    /\ pc = "done"
    /\ \E g \in DOMAIN grouped_data :
          /\ TokenIds(grouped_data[g].events, grouped_data[g].dates, vocab)
                = <<1, 3, 4, 5, 2, 3, 4, 2>>
          /\ files["sequences"].val[g] = <<4, 5, 2, 3, 4, 2>>
          /\ files["lengths"].val[g] = 6

\* Event tables that differ only in the order and multiplicity of codes.
CodeTables ==
    SeqsUpTo([person_id : {1}, concept_id : Codes, event_date : {1}], MaxEvents)

VocabBuilt == pc \notin {"calculate_mace_outcomes", "sort_values", "create_vocabulary"}

\* C6: the vocabulary has [PAD]=0, [CLS]=1, [SEP]=2, [DAY]=3, maps the k
\* distinct codes injectively onto 4..3+k in ascending code order (only the
\* reserved entries when the table is empty), and any table with the same
\* set of codes yields the identical mapping.
C6_Vocabulary ==
    VocabBuilt =>
        LET codes == {data[k].concept_id : k \in DOMAIN data}
            k == Cardinality(codes)
        IN /\ vocab["[PAD]"] = 0 /\ vocab["[CLS]"] = 1
           /\ vocab["[SEP]"] = 2 /\ vocab["[DAY]"] = 3
           /\ DOMAIN vocab = {"[PAD]", "[CLS]", "[SEP]", "[DAY]"}
                                \cup {ToString(c) : c \in codes}
           /\ {vocab[ToString(c)] : c \in codes} = 4..(3 + k)
           /\ \A c, d \in codes : c < d => vocab[ToString(c)] < vocab[ToString(d)]
           /\ data = <<>> => Cardinality(DOMAIN vocab) = 4
           /\ \A other \in CodeTables :
                 {other[j].concept_id : j \in DOMAIN other} = codes
                    => create_vocabulary(other) = vocab

C6_Witness ==
    /\ pc = "merge"
    /\ Len(data) = 3
    /\ data[1].concept_id = 10
    /\ data[2].concept_id = 9
    /\ data[3].concept_id = 10
    /\ vocab["9"] = 4
    /\ vocab["10"] = 5

\* C7: with several index-date rows for a person, the stored label is the
\* one computed from the person's chronologically earliest index date.
C7_EarliestIndexDate ==
    Returned =>
        \A p \in DOMAIN sample_id_to_index :
            LET starts == RowsOf(antihypertensive_starts, p)
                earliest == CHOOSE d \in {starts[k].index_date : k \in DOMAIN starts} :
                               \A k \in DOMAIN starts : d <= starts[k].index_date
                outcome == RowsOf(mace_data, p)
            IN Len(starts) >= 1 /\ Len(outcome) = 1 =>
                  (mace_outcomes[sample_id_to_index[p] + 1] = 1
                      <=> InWindow(earliest, outcome[1].first_mace_date))

LastRowOf(df, p) == RowsOf(df, p)[Len(RowsOf(df, p))]

DeathInWindow(row) ==
    /\ row.death_date # NaT
    /\ row.death_date - row.first_exposure_date >= 0
    /\ row.death_date - row.first_exposure_date <= 365

RECURSIVE MaxLen(_)
MaxLen(ss) == IF ss = <<>> THEN 0 ELSE Max(Len(Head(ss)), MaxLen(Tail(ss)))

\* C9: the reported maximum sequence length is the maximum raw,
\* pre-truncation token count over all patients.
C9_MaxRawLength ==
    Persisted =>
        max_seq_length =
            MaxLen([g \in DOMAIN grouped_data |->
                      TokenIds(grouped_data[g].events, grouped_data[g].dates, vocab)])

\* C10: whenever an invocation has ended, normally or by a failed write, the
\* persisted artifacts that exist all come from one invocation.
C10_ArtifactsConsistent ==
    pc \in {"done", "aborted"} =>
        \A a, b \in Artifacts :
            files[a].run # 0 /\ files[b].run # 0 => files[a].run = files[b].run

\* What an invocation over the same event table with empty index-date and
\* outcome tables groups: every event once, in sorted order.
EventsOnlyGroups == GroupBy(DataMerge(data, <<>>))

\* C11: the token matrix and the valid-length array depend only on the
\* event table: every row and valid length equal those of an invocation
\* over the same events with other index-date and outcome tables, and a
\* patient's untruncated sequence has one code token per input event row.
C11_EventsOnly ==
    Persisted =>
        /\ Len(grouped_data) = Len(EventsOnlyGroups)
        /\ \A g \in DOMAIN grouped_data :
              LET alone == EventsOnlyGroups[g]
                  tokens == tokenize_patient_data(alone.events, alone.dates,
                                                  create_vocabulary(data))
                  zeros == [k \in 1..MAX_SEQ_LENGTH |-> 0]
              IN /\ grouped_data[g].name = alone.name
                 /\ files["sequences"].val[g] = PadRow(zeros, tokens)
                 /\ files["lengths"].val[g] = Len(tokens)
                 /\ Len(grouped_data[g].events) =
                       Len(RowsOf(data, grouped_data[g].name))

====
